---- MODULE Spec2Model ----
(***************************************************************************)
(* A model of otskit's object engine (src/src/math.ts, the part below the  *)
(* import of ./is): clone, deepMerge, makeReadonly and traverse, run on a  *)
(* JavaScript heap of objects with identity; and of the poller of          *)
(* src/src/time.ts (createPoller), run by the event loop.                  *)
(*                                                                         *)
(* A value is a record [tag, n]: undefined, null, a primitive n, or a      *)
(* reference to heap address n.  A heap is a sequence of objects; an       *)
(* object has a kind (the tag Object.prototype.toString reports), its own  *)
(* enumerable properties in insertion order, its [[Prototype]], a frozen   *)
(* flag and, for Date/RegExp/Map/Set, a number standing for its content.   *)
(***************************************************************************)
EXTENDS Integers, Sequences, FiniteSets

VARIABLES heap,    \* the JavaScript heap after the call
          pre,     \* the heap as it was when the operation was called
          args,    \* the argument list of the call (values)
          ret,     \* the value the operation returned
          pc,      \* "ready" before the call, then the name of the operation called
          fn,      \* the visitor passed to traverse (a rewrite rule)
          calls,   \* the TraverseNode objects created by traverse, in creation order
          running,     \* createPoller's running
          timerId,     \* createPoller's timerId: 0 for null, or the last timer set
          timers,      \* the timers set with setTimeout(run, interval) and neither
                       \* fired nor cleared, in the order they were set
          nextTimer,   \* the id the next call of setTimeout returns
          unsettled,   \* the promises returned by the polled function, not yet settled
          visible,     \* document.visibilityState === 'visible'
          listening,   \* handleVisibility is a listener of visibilitychange
          options,     \* the options createPoller was called with
          invoked,     \* how many times the polled function has been invoked
          hiddenCalls, \* how many of these since the document became hidden with
                       \* the poller running, start's own invocation apart
          now,              \* Date.now()
          debounceOptions,  \* debounce's waitInMs and immediate
          storedArguments,  \* debounce's storedArguments: 0 for undefined
          timeoutId,        \* debounce's timeoutId: 0 for undefined
          timestamp,        \* debounce's timestamp
          lastResult,       \* debounce's result: 0 for undefined
          timeouts,         \* the timers set by debounce's setTimeout(later, ...) and
                            \* neither fired nor cleared, each with the time it is due
          nextTimeout,      \* the id the next call of that setTimeout returns
          trace,            \* the calls of debounced, clear and trigger and the
                            \* invocations of func so far, in order
          elapsed,          \* the milliseconds since timeout(promise, options) was called
          timeoutOptions,   \* timeout's options: timeoutMs, the kind of onTimeout and
                            \* whether onTimeoutEffect is given
          original,         \* the promise passed to timeout: its state and when it settled
          timeoutTimer,     \* timeout's timer: "set", "fired" or "cleared"
          fallback,         \* the promise returned by an asynchronous onTimeout
          outcome,          \* the promise timeout returned
          effects,          \* how many times onTimeoutEffect has been invoked
          previousArray,    \* diffObjectsInArrays' previousArray
          newArray,         \* diffObjectsInArrays' newArray
          keysToCompare,    \* diffObjectsInArrays' keysToCompare, given or not
          uniqueKeys,       \* diffObjectsInArrays' uniqueKeys, given or not
          diffs             \* the array diffObjectsInArrays returned

objectVars == <<heap, pre, args, ret, pc, fn, calls>>

pollerVars == <<running, timerId, timers, nextTimer, unsettled, visible, listening,
                options, invoked, hiddenCalls>>

debounceVars == <<now, debounceOptions, storedArguments, timeoutId, timestamp, lastResult,
                  timeouts, nextTimeout, trace>>

vars == <<heap, pre, args, ret, pc, fn, calls, running, timerId, timers, nextTimer,
          unsettled, visible, listening, options, invoked, hiddenCalls,
          now, debounceOptions, storedArguments, timeoutId, timestamp, lastResult,
          timeouts, nextTimeout, trace,
          elapsed, timeoutOptions, original, timeoutTimer, fallback, outcome, effects,
          previousArray, newArray, keysToCompare, uniqueKeys, diffs>>

timeoutVars == <<elapsed, timeoutOptions, original, timeoutTimer, fallback, outcome, effects>>

diffVars == <<previousArray, newArray, keysToCompare, uniqueKeys, diffs>>

\* the variables the object engine, the poller, debounce, timeout and
\* diffObjectsInArrays leave alone
notObject == <<pollerVars, debounceVars, timeoutVars, diffVars>>
notPoller == <<objectVars, debounceVars, timeoutVars, diffVars>>
notDebounce == <<objectVars, pollerVars, timeoutVars, diffVars>>
notTimeout == <<objectVars, pollerVars, debounceVars, diffVars>>
notDiff == <<heap, pre, args, ret, fn, calls, pollerVars, debounceVars, timeoutVars>>

(***************************************************************************)
(* Bounds of the model.                                                    *)
(***************************************************************************)
MaxSize == 4       \* nodes (objects, arrays, leaves) of one generated input tree
MaxWidth == 2      \* elements of a generated array
MaxSources == 3    \* arguments of one deepMerge call
MaxArgsSize == 5   \* nodes of the arguments of one deepMerge call, in total
MaxCalls == 5      \* invocations of the polled function of one poller
MaxTime == 4       \* the time up to which a debounced function is followed
MaxWait == 2       \* the longest waitInMs of a debounced function
MaxDebounced == 3  \* calls of one debounced function
MaxControls == 1   \* calls of clear and trigger of one debounced function
MaxTimeoutMs == 2  \* the longest timeoutMs of a call of timeout
MaxElapsed == 4    \* the time up to which a call of timeout is followed
MaxKeys == 2       \* keys listed in one call of omit
MaxLen == 2        \* elements of an array passed to diffObjectsInArrays

(***************************************************************************)
(* Values and objects.                                                     *)
(***************************************************************************)
Undefined == [tag |-> "undefined", n |-> 0]
Null == [tag |-> "null", n |-> 0]
Prim(n) == [tag |-> "prim", n |-> n]
Ref(a) == [tag |-> "ref", n |-> a]
ObjectPrototype == [tag |-> "Object.prototype", n |-> 0]
ClassPrototype == [tag |-> "Class.prototype", n |-> 0]

IsRef(v) == v.tag = "ref"

\* JavaScript truthiness: undefined, null and the primitive 0 are falsy
Truthy(v) == IsRef(v) \/ (v.tag = "prim" /\ v.n # 0)

NewObject(kind, proto) ==
    [kind |-> kind, props |-> <<>>, proto |-> proto, frozen |-> FALSE, data |-> 0]

EmptyObject == NewObject("Object", ObjectPrototype)
EmptyArray == NewObject("Array", ObjectPrototype)

Alloc(h, o) == Append(h, o)
Fresh(h) == Ref(Len(h) + 1)

KindOf(h, v) == IF IsRef(v) THEN h[v.n].kind ELSE v.tag

isArray(h, v) == KindOf(h, v) = "Array"

isFunction(h, v) == KindOf(h, v) = "Function"

\* Object.getPrototypeOf(p) === null, for p a [[Prototype]]
ProtoIsNull(h, p) ==
    CASE p.tag = "Object.prototype" -> TRUE
      [] p.tag = "ref" -> h[p.n].proto.tag = "null"
      [] OTHER -> FALSE

isPlainObject(h, v) ==
    /\ KindOf(h, v) = "Object"
    /\ LET proto == h[v.n].proto
       IN proto.tag = "null" \/ proto.tag = "Object.prototype" \/ ProtoIsNull(h, proto)

ReservedKeys == {"__proto__", "constructor", "prototype"}

\* index of own property key in o's property list, 0 when absent
OwnIndex(o, key) ==
    LET hits == {i \in 1..Len(o.props) : o.props[i].key = key}
    IN IF hits = {} THEN 0 ELSE CHOOSE i \in hits : TRUE

RECURSIVE Get(_, _, _)
\* o[key]: the own property, else the inherited one
Get(h, v, key) ==
    IF ~IsRef(v) THEN Undefined
    ELSE LET o == h[v.n]
             i == OwnIndex(o, key)
         IN IF i # 0 THEN o.props[i].val
            ELSE IF key = "__proto__" THEN
                    (IF o.proto.tag \in {"ref", "null"} THEN o.proto ELSE Undefined)
            ELSE IF o.proto.tag = "ref" THEN Get(h, o.proto, key)
            ELSE Undefined

\* the keys that are array indices ("0", "1", ...): an object lists them
\* before its other keys, in ascending order
IndexKey(i) == <<"0", "1", "2", "3", "4", "5", "6", "7">>[i + 1]

IsIndexKey(key) == key \in {"0", "1", "2", "3", "4", "5", "6", "7"}

IndexOfKey(key) == CHOOSE i \in 0..7 : IndexKey(i) = key

\* props with a new property: an index key after the index keys below it,
\* any other key at the end
Define(props, key, val) ==
    IF IsIndexKey(key)
    THEN LET below == Cardinality({j \in 1..Len(props) :
                                     /\ IsIndexKey(props[j].key)
                                     /\ IndexOfKey(props[j].key) < IndexOfKey(key)})
         IN SubSeq(props, 1, below) \o <<[key |-> key, val |-> val]>>
                \o SubSeq(props, below + 1, Len(props))
    ELSE Append(props, [key |-> key, val |-> val])

\* o[key] = val on an object that is not frozen: an own property is
\* overwritten in place; __proto__ without an own property of that name runs
\* the Object.prototype.__proto__ setter; otherwise the property is defined
Put(h, v, key, val) ==
    LET o == h[v.n]
        i == OwnIndex(o, key)
    IN IF i # 0 THEN [h EXCEPT ![v.n].props[i].val = val]
       ELSE IF key = "__proto__" /\ o.proto.tag # "null" THEN
               (IF val.tag \in {"ref", "null"} THEN [h EXCEPT ![v.n].proto = val] ELSE h)
       ELSE [h EXCEPT ![v.n].props = Define(@, key, val)]

\* array.push(...items)
Push(h, v, items) ==
    [h EXCEPT ![v.n].props = @ \o [i \in 1..Len(items) |-> [key |-> "", val |-> items[i].val]]]

RECURSIVE ReachAddr(_, _)
\* the objects reachable from address a through own properties
ReachAddr(h, a) ==
    {a} \cup UNION {ReachAddr(h, h[a].props[i].val.n) :
                        i \in {j \in 1..Len(h[a].props) : IsRef(h[a].props[j].val)}}

Reach(h, v) == IF IsRef(v) THEN ReachAddr(h, v.n) ELSE {}

IsContainer(h, v) == isArray(h, v) \/ isPlainObject(h, v)

RECURSIVE ContainersAt(_, _)
\* the plain objects and arrays reachable from address a through plain
\* objects and arrays only (a itself included when it is one)
ContainersAt(h, a) ==
    IF ~IsContainer(h, Ref(a)) THEN {}
    ELSE {a} \cup UNION {ContainersAt(h, h[a].props[i].val.n) :
                             i \in {j \in 1..Len(h[a].props) : IsRef(h[a].props[j].val)}}

Containers(h, v) == IF IsRef(v) THEN ContainersAt(h, v.n) ELSE {}

(***************************************************************************)
(* Trees: the structural content of a value, used to generate the inputs   *)
(* and to compare values for deep equality.                                *)
(***************************************************************************)
Tree(kind, data, proto, frozen, kids) ==
    [kind |-> kind, data |-> data, proto |-> proto, frozen |-> frozen, kids |-> kids]

Leaf(kind, data) == Tree(kind, data, "", FALSE, <<>>)

RECURSIVE Deep(_, _)
Deep(h, v) ==
    IF ~IsRef(v) THEN Leaf(v.tag, v.n)
    ELSE LET o == h[v.n]
         IN Tree(o.kind, o.data, o.proto.tag, o.frozen,
                 [i \in 1..Len(o.props) |-> [key |-> o.props[i].key, t |-> Deep(h, o.props[i].val)]]
                 \o (IF o.proto.tag = "ref"
                     THEN <<[key |-> "[[Prototype]]", t |-> Deep(h, o.proto)]>>
                     ELSE <<>>))

ProtoOfTag(tag) ==
    CASE tag = "null" -> Null
      [] tag = "Class.prototype" -> ClassPrototype
      [] OTHER -> ObjectPrototype

RECURSIVE Load(_, _), LoadKids(_, _, _, _)
\* allocate tree t in heap h: [h |-> the new heap, v |-> the value of t]
Load(h, t) ==
    IF t.kind \in {"undefined", "null", "prim"} THEN [h |-> h, v |-> [tag |-> t.kind, n |-> t.data]]
    ELSE LET a == Len(h) + 1
             o == [kind |-> t.kind, props |-> <<>>, proto |-> ProtoOfTag(t.proto),
                   frozen |-> t.frozen, data |-> t.data]
         IN [h |-> LoadKids(Append(h, o), a, t.kids, 1), v |-> Ref(a)]

LoadKids(h, a, kids, i) ==
    IF i > Len(kids) THEN h
    ELSE LET r == Load(h, kids[i].t)
         IN LoadKids([r.h EXCEPT ![a].props = Define(@, kids[i].key, r.v)],
                     a, kids, i + 1)

\* An input is generated as the preorder list of its nodes, each a record
\* [depth, key, t]: its depth (1 for an argument of the call), the key it
\* has in its parent ("" for an argument and for an array element) and its
\* tree without the children.  The alphabet A = [leaves, shapes, keys] gives
\* the leaves, the shapes of the objects and arrays, and the keys.
Labels(A) == A.leaves \cup {Tree(s.kind, 0, s.proto, s.frozen, <<>>) : s \in A.shapes}

LastDepth(nodes) == IF nodes = <<>> THEN 0 ELSE nodes[Len(nodes)].depth

\* the index of the node a new node of depth d is a child of, 0 for d = 1
ParentAt(nodes, d) ==
    LET above == {i \in 1..Len(nodes) : nodes[i].depth = d - 1}
    IN IF above = {} THEN 0 ELSE CHOOSE i \in above : \A j \in above : j <= i

\* the children the parent of a new node of depth d has so far
SiblingsAt(nodes, d) == {i \in (ParentAt(nodes, d) + 1)..Len(nodes) : nodes[i].depth = d}

\* the depths a node appended to nodes may have: an argument while there are
\* fewer than roots, a child of an object or of an array of fewer than
\* MaxWidth elements
DepthsAt(nodes, roots) ==
    {d \in 1..(LastDepth(nodes) + 1) :
        LET p == ParentAt(nodes, d)
            width == Cardinality(SiblingsAt(nodes, d))
        IN IF d = 1 THEN width < roots
           ELSE /\ nodes[p].t.kind \in {"Object", "Array"}
                /\ nodes[p].t.kind = "Array" => width < MaxWidth}

\* the keys a node of depth d appended to nodes may have
KeysAt(nodes, d, A) ==
    IF d = 1 \/ nodes[ParentAt(nodes, d)].t.kind = "Array" THEN {""}
    ELSE A.keys \ {nodes[i].key : i \in SiblingsAt(nodes, d)}

RECURSIVE Kids(_, _, _)
\* the key-value list of the nodes of depth d from index i on, up to the
\* first node above depth d
Kids(nodes, i, d) ==
    IF i > Len(nodes) \/ nodes[i].depth < d THEN <<>>
    ELSE IF nodes[i].depth > d THEN Kids(nodes, i + 1, d)
    ELSE <<[key |-> nodes[i].key, t |-> [nodes[i].t EXCEPT !.kids = Kids(nodes, i + 1, d + 1)]]>>
             \o Kids(nodes, i + 1, d)

PlainShape == [kind |-> "Object", proto |-> "Object.prototype", frozen |-> FALSE]
ArrayShape == [kind |-> "Array", proto |-> "Object.prototype", frozen |-> FALSE]
InstanceShape == [kind |-> "Object", proto |-> "Class.prototype", frozen |-> FALSE]

DateLeaf == Leaf("Date", 1)
FunctionLeaf == Leaf("Function", 0)

(***************************************************************************)
(* clone                                                                   *)
(***************************************************************************)
\* isMergableObject accepting every object that is not an array
isMergableObjectAny(h, v) == IsRef(v) /\ ~isArray(h, v)

isMergableObject(h, v) == isPlainObject(h, v) /\ ~isArray(h, v)

RECURSIVE cloneWithOriginalBehavior(_, _, _), cloneKeys(_, _, _, _)
\* the heap after cloneWithOriginalBehavior(target, source)
cloneWithOriginalBehavior(h, target, source) ==
    LET h1 == IF isArray(h, target) /\ isArray(h, source)
              THEN Push(h, target, h[source.n].props)
              ELSE h
    IN IF isMergableObject(h1, target) /\ isMergableObject(h1, source)
       THEN cloneKeys(h1, target, source, 1)
       ELSE h1

\* the loop over objectKeys(source), from the i-th key on
cloneKeys(h, target, source, i) ==
    IF i > Len(h[source.n].props) THEN h
    ELSE LET key == h[source.n].props[i].key
             sv == h[source.n].props[i].val
             fresh == IF isArray(h, sv) THEN EmptyArray ELSE EmptyObject
             h1 == IF ~Truthy(Get(h, target, key))
                   THEN Put(Alloc(h, fresh), target, key, Fresh(h))
                   ELSE h
         IN IF key \in ReservedKeys THEN cloneKeys(h, target, source, i + 1)
            ELSE IF isArray(h, sv) \/ isMergableObject(h, sv)
            THEN cloneKeys(cloneWithOriginalBehavior(h1, Get(h1, target, key), sv),
                           target, source, i + 1)
            ELSE cloneKeys(Put(h, target, key, sv), target, source, i + 1)

\* clone(obj): [h |-> the heap after the call, v |-> the returned value]
clone(h, obj) ==
    [h |-> cloneWithOriginalBehavior(Alloc(h, EmptyObject), Fresh(h), obj), v |-> Fresh(h)]

(***************************************************************************)
(* The clone specification: one call of clone on a generated input.        *)
(***************************************************************************)
CloneAlphabet ==
    [leaves |-> {Leaf("prim", 1), Leaf("undefined", 0), DateLeaf, FunctionLeaf},
     shapes |-> {PlainShape, ArrayShape, InstanceShape},
     keys |-> {"a", "b"}]

NoVisitor == [op |-> "none"]

\* the state createPoller(fn, o) returns in, the document being visible or not
Created(o, v) ==
    /\ running = FALSE
    /\ timerId = 0
    /\ timers = <<>>
    /\ nextTimer = 1
    /\ unsettled = 0
    /\ visible = v
    /\ listening = FALSE
    /\ options = o
    /\ invoked = 0
    /\ hiddenCalls = 0

\* the state debounce(func, o.waitInMs, {immediate: o.immediate}) returns in
Debounced(o) ==
    /\ now = 0
    /\ debounceOptions = o
    /\ storedArguments = 0
    /\ timeoutId = 0
    /\ timestamp = 0
    /\ lastResult = 0
    /\ timeouts = {}
    /\ nextTimeout = 1
    /\ trace = <<>>

\* the state timeout(promise, o) returns in: the timer is set and the
\* returned promise pending
TimeoutCalled(o) ==
    /\ elapsed = 0
    /\ timeoutOptions = o
    /\ original = [state |-> "pending", at |-> 0]
    /\ timeoutTimer = "set"
    /\ fallback = "none"
    /\ outcome = "pending"
    /\ effects = 0

\* keys that are not given (the argument is undefined), and keys that are
NotGiven == [given |-> FALSE, keys |-> <<>>]
Given(keys) == [given |-> TRUE, keys |-> keys]

\* diffObjectsInArrays is about to be called with these arguments
Diffing(p, n, k, u) ==
    /\ previousArray = p
    /\ newArray = n
    /\ keysToCompare = k
    /\ uniqueKeys = u
    /\ diffs = <<>>

NotDiffing == Diffing(<<>>, <<>>, NotGiven, NotGiven)

\* the poller, the debounced function and the calls of timeout and of
\* diffObjectsInArrays that the object engine's specifications leave as they
\* are
Unused ==
    /\ Created([pauseWhenHidden |-> FALSE], TRUE)
    /\ Debounced([waitInMs |-> 1, immediate |-> FALSE])
    /\ TimeoutCalled([timeoutMs |-> 1, onTimeout |-> "value", onTimeoutEffect |-> FALSE])
    /\ NotDiffing

\* the call is about to be made with the arguments listed in nodes, held in
\* an arguments array at address 1
InitWith(nodes) ==
    \E r \in {Load(<<>>, Tree("Array", 0, "Object.prototype", FALSE, Kids(nodes, 1, 1)))} :
        /\ heap = r.h
        /\ pre = r.h
        /\ args = [i \in 1..Len(r.h[1].props) |-> r.h[1].props[i].val]
        /\ ret = Undefined
        /\ pc = "ready"
        /\ calls = <<>>
        /\ Unused

RECURSIVE InitInputs(_, _, _, _)
\* the arguments are any list of at most roots values of at most size nodes
\* in total over alphabet A, nodes being the part generated so far
InitInputs(nodes, A, size, roots) ==
    \/ nodes # <<>> /\ InitWith(nodes)
    \/ /\ Len(nodes) < size
       /\ \E d \in DepthsAt(nodes, roots) :
            \E k \in KeysAt(nodes, d, A) :
              \E t \in Labels(A) :
                InitInputs(Append(nodes, [depth |-> d, key |-> k, t |-> t]), A, size, roots)

InitClone == fn = NoVisitor /\ InitInputs(<<>>, CloneAlphabet, MaxSize, 1)

Clone ==
    /\ pc = "ready"
    /\ \E r \in {clone(heap, args[1])} :
        /\ heap' = r.h
        /\ ret' = r.v
    /\ pc' = "clone"
    /\ UNCHANGED <<pre, args, fn, calls>>
    /\ UNCHANGED notObject

NextClone == Clone

SpecClone == InitClone /\ [][NextClone]_vars

(***************************************************************************)
(* deepMerge                                                               *)
(***************************************************************************)
HasContent(h, v) == KindOf(h, v) \in {"Date", "RegExp", "Map", "Set"}

\* cloneSpecialObject returning every object as it is
cloneSpecialObjectShared(h, obj) == [h |-> h, v |-> obj]

\* cloneSpecialObject(obj): a new Date, RegExp, Map or Set with obj's
\* content; every other object as it is
cloneSpecialObject(h, obj) ==
    IF HasContent(h, obj)
    THEN [h |-> Alloc(h, [NewObject(h[obj.n].kind, ObjectPrototype) EXCEPT !.data = h[obj.n].data]),
          v |-> Fresh(h)]
    ELSE [h |-> h, v |-> obj]

RECURSIVE cloneValue(_, _), cloneValueKeys(_, _, _, _)
cloneValue(h, value) ==
    IF ~IsRef(value) \/ isFunction(h, value) THEN [h |-> h, v |-> value]
    ELSE IF isArray(h, value)
    THEN [h |-> Push(Alloc(h, EmptyArray), Fresh(h), h[value.n].props), v |-> Fresh(h)]
    ELSE IF ~isPlainObject(h, value) THEN cloneSpecialObject(h, value)
    ELSE [h |-> cloneValueKeys(Alloc(h, EmptyObject), Fresh(h), value, 1), v |-> Fresh(h)]

\* the loop over Object.keys(value), from the i-th key on
cloneValueKeys(h, cloned, value, i) ==
    IF i > Len(h[value.n].props) THEN h
    ELSE LET key == h[value.n].props[i].key
             r == cloneValue(h, Get(h, value, key))
         IN cloneValueKeys(Put(r.h, cloned, key, r.v), cloned, value, i + 1)

RECURSIVE mergeWithInPlace(_, _, _), mergeKeysInPlace(_, _, _, _)
\* mergeWith as a merge into target itself that assigns source values
\* without copying them
mergeWithInPlace(h, target, sources) ==
    IF Len(sources) = 0 THEN [h |-> h, v |-> target]
    ELSE LET source == Head(sources)
         IN IF source = Undefined THEN [h |-> h, v |-> target]
            ELSE IF isPlainObject(h, target) /\ isPlainObject(h, source)
            THEN mergeWithInPlace(mergeKeysInPlace(h, target, source, 1), target, Tail(sources))
            ELSE mergeWithInPlace(h, target, Tail(sources))

mergeKeysInPlace(h, target, source, i) ==
    IF i > Len(h[source.n].props) THEN h
    ELSE LET key == h[source.n].props[i].key
             sourceValue == Get(h, source, key)
             targetValue == Get(h, target, key)
         IN IF key \in ReservedKeys THEN mergeKeysInPlace(h, target, source, i + 1)
            ELSE IF isPlainObject(h, sourceValue) /\ isPlainObject(h, targetValue)
            THEN mergeKeysInPlace(mergeWithInPlace(h, targetValue, <<sourceValue>>).h,
                                  target, source, i + 1)
            ELSE mergeKeysInPlace(Put(h, target, key, sourceValue), target, source, i + 1)

RECURSIVE mergeWith(_, _, _), mergeTargetKeys(_, _, _, _), mergeSourceKeys(_, _, _, _)
\* mergeWith(target, ...sources): [h |-> the heap after the call, v |-> the result]
mergeWith(h, target, sources) ==
    IF Len(sources) = 0 THEN [h |-> h, v |-> target]
    ELSE LET source == Head(sources)
             result == Fresh(h)
             h1 == mergeTargetKeys(Alloc(h, EmptyObject), result, target, 1)
             h2 == mergeSourceKeys(h1, result, source, 1)
         IN IF source = Undefined THEN [h |-> h, v |-> target]
            ELSE IF isPlainObject(h, target) /\ isPlainObject(h, source)
            THEN mergeWith(h2, result, Tail(sources))
            ELSE mergeWith(h, target, Tail(sources))

\* the loop over objectKeys(target), from the i-th key on
mergeTargetKeys(h, result, target, i) ==
    IF i > Len(h[target.n].props) THEN h
    ELSE LET key == h[target.n].props[i].key
             r == cloneValue(h, Get(h, target, key))
         IN IF key \in ReservedKeys THEN mergeTargetKeys(h, result, target, i + 1)
            ELSE mergeTargetKeys(Put(r.h, result, key, r.v), result, target, i + 1)

\* mergeSourceKeys appending the elements of a source array to the array
\* the result already holds under the key
mergeSourceKeysConcat(h, result, source, i) ==
    IF i > Len(h[source.n].props) THEN h
    ELSE LET key == h[source.n].props[i].key
             sourceValue == Get(h, source, key)
             targetValue == Get(h, result, key)
         IN IF key \notin ReservedKeys /\ isArray(h, sourceValue) /\ isArray(h, targetValue)
            THEN mergeSourceKeys(Push(h, targetValue, h[sourceValue.n].props), result, source, i + 1)
            ELSE IF key \in ReservedKeys THEN mergeSourceKeys(h, result, source, i + 1)
            ELSE LET copy == IF isArray(h, sourceValue)
                             THEN [h |-> Push(Alloc(h, EmptyArray), Fresh(h), h[sourceValue.n].props),
                                   v |-> Fresh(h)]
                             ELSE IF isPlainObject(h, sourceValue) /\ isPlainObject(h, targetValue)
                             THEN mergeWith(h, targetValue, <<sourceValue>>)
                             ELSE cloneValue(h, sourceValue)
                 IN mergeSourceKeys(Put(copy.h, result, key, copy.v), result, source, i + 1)

\* the loop over objectKeys(source), from the i-th key on
mergeSourceKeys(h, result, source, i) ==
    IF i > Len(h[source.n].props) THEN h
    ELSE LET key == h[source.n].props[i].key
             sourceValue == Get(h, source, key)
             targetValue == Get(h, result, key)
             copy == IF isArray(h, sourceValue)
                     THEN [h |-> Push(Alloc(h, EmptyArray), Fresh(h), h[sourceValue.n].props),
                           v |-> Fresh(h)]
                     ELSE IF isPlainObject(h, sourceValue) /\ isPlainObject(h, targetValue)
                     THEN mergeWith(h, targetValue, <<sourceValue>>)
                     ELSE cloneValue(h, sourceValue)
         IN IF key \in ReservedKeys THEN mergeSourceKeys(h, result, source, i + 1)
            ELSE mergeSourceKeys(Put(copy.h, result, key, copy.v), result, source, i + 1)

\* deepMerge merging its first two arguments only
deepMergeFirstTwo(h, objects) ==
    mergeWith(Alloc(h, EmptyObject), Fresh(h), SubSeq(objects, 1, IF Len(objects) < 2 THEN Len(objects) ELSE 2))

\* deepMerge(...objects)
deepMerge(h, objects) == mergeWith(Alloc(h, EmptyObject), Fresh(h), objects)

(***************************************************************************)
(* The merge specification: one call of deepMerge on a generated list of   *)
(* sources.                                                                *)
(***************************************************************************)
MergeAlphabet ==
    [leaves |-> {Leaf("prim", 1), DateLeaf},
     shapes |-> {PlainShape, ArrayShape},
     keys |-> {"a", "__proto__"}]

InitMerge ==
    fn = NoVisitor /\ InitInputs(<<>>, MergeAlphabet, MaxArgsSize, MaxSources)

DeepMerge ==
    /\ pc = "ready"
    /\ \E r \in {deepMerge(heap, args)} :
        /\ heap' = r.h
        /\ ret' = r.v
    /\ pc' = "deepMerge"
    /\ UNCHANGED <<pre, args, fn, calls>>
    /\ UNCHANGED notObject

NextMerge == DeepMerge

SpecMerge == InitMerge /\ [][NextMerge]_vars

\* the same call on argument lists that hold values that are not plain
\* objects (undefined, a primitive, an array) among the plain objects
ArgsAlphabet ==
    [leaves |-> {Leaf("undefined", 0), Leaf("prim", 1)},
     shapes |-> {PlainShape, ArrayShape},
     keys |-> {"a", "b"}]

InitMergeArgs ==
    fn = NoVisitor /\ InitInputs(<<>>, ArgsAlphabet, MaxArgsSize, MaxSources)

SpecMergeArgs == InitMergeArgs /\ [][NextMerge]_vars

\* the same call on sources that hold Dates of different content and class
\* instances under the keys of plain objects
SpecialAlphabet ==
    [leaves |-> {DateLeaf, Leaf("Date", 2)},
     shapes |-> {PlainShape, InstanceShape},
     keys |-> {"a", "b"}]

InitMergeSpecial ==
    fn = NoVisitor /\ InitInputs(<<>>, SpecialAlphabet, MaxArgsSize, MaxSources)

SpecMergeSpecial == InitMergeSpecial /\ [][NextMerge]_vars

(***************************************************************************)
(* makeReadonly                                                            *)
(***************************************************************************)
\* typeof val === 'object' && val !== null
IsObjectType(h, v) == IsRef(v) /\ ~isFunction(h, v)

RECURSIVE deepFreeze(_, _), deepFreezeKeys(_, _, _)
\* the heap after deepFreeze(obj)
deepFreeze(h, obj) ==
    IF IsRef(obj) THEN deepFreezeKeys([h EXCEPT ![obj.n].frozen = TRUE], obj, 1) ELSE h

\* the loop over Object.getOwnPropertyNames(obj), from the i-th name on
deepFreezeKeys(h, obj, i) ==
    IF i > Len(h[obj.n].props) THEN h
    ELSE LET val == h[obj.n].props[i].val
         IN IF IsObjectType(h, val) /\ ~h[val.n].frozen
            THEN deepFreezeKeys(deepFreeze(h, val), obj, i + 1)
            ELSE deepFreezeKeys(h, obj, i + 1)

\* makeReadonly(obj): [h |-> the heap after the call, v |-> the returned value]
makeReadonly(h, obj) ==
    LET c == clone(h, obj)
    IN [h |-> deepFreeze(c.h, c.v), v |-> c.v]

(***************************************************************************)
(* The readonly specification: one call of makeReadonly on a generated     *)
(* input, parts of which the caller may have frozen already.               *)
(***************************************************************************)
ReadonlyAlphabet ==
    [leaves |-> {Leaf("prim", 1), DateLeaf},
     shapes |-> {PlainShape, ArrayShape, InstanceShape,
                 [PlainShape EXCEPT !.frozen = TRUE]},
     keys |-> {"a", "b"}]

InitReadonly == fn = NoVisitor /\ InitInputs(<<>>, ReadonlyAlphabet, MaxSize, 1)

MakeReadonly ==
    /\ pc = "ready"
    /\ \E r \in {makeReadonly(heap, args[1])} :
        /\ heap' = r.h
        /\ ret' = r.v
    /\ pc' = "makeReadonly"
    /\ UNCHANGED <<pre, args, fn, calls>>
    /\ UNCHANGED notObject

NextReadonly == MakeReadonly

SpecReadonly == InitReadonly /\ [][NextReadonly]_vars

(***************************************************************************)
(* traverse                                                                *)
(*                                                                         *)
(* The visitor is a rewrite rule fn:                                       *)
(*   op     what it returns: "none" undefined always; "keep" {key, value}  *)
(*          always; "prim", "object", "array" a new value for the key      *)
(*          fn.match; "first" the first element of every array value;      *)
(*          except under "keep", undefined when it changes nothing         *)
(*   rename whether it renames the key fn.match to RenamedKey              *)
(*   skip   the key on whose node it calls ignoreChildren() ("" for none)  *)
(*   promise when it returns a promise: "never", "always", "probe" (for    *)
(*          the probe pair only) or "real" (for every pair but the probe)  *)
(*   late   whether, when it returns a promise, it calls ignoreChildren()  *)
(*          after it has suspended (before its promise settles)            *)
(* A promise is an object of kind Promise whose one property holds the     *)
(* value it settles to.  The continuations of the promises of the elements *)
(* of a top-level array run one element after the other.                   *)
(***************************************************************************)
ProbeKey == "test"
RenamedKey == "c"
ResultSlot == "[[PromiseResult]]"

isPromise(h, v) == KindOf(h, v) = "Promise"

\* new Promise settling to v: [h, v]
PromiseOf(h, v) ==
    [h |-> Alloc(h, [NewObject("Promise", ObjectPrototype) EXCEPT
                        !.props = <<[key |-> ResultSlot, val |-> v]>>]),
     v |-> Fresh(h)]

\* await v
Await(h, v) == IF isPromise(h, v) THEN h[v.n].props[1].val ELSE v

ReturnsPromise(f, key) ==
    \/ f.promise = "always"
    \/ f.promise = "probe" /\ key = ProbeKey
    \/ f.promise = "real" /\ key # ProbeKey

\* fn({key, value}, node): the heap after the call, whether it returned
\* undefined, the pair it returned, whether that came as a promise, and the
\* calls of node.ignoreChildren() made before and after it suspended
Visit(h, f, key, value) ==
    LET matched == key = f.match
        newKey == IF matched /\ f.rename THEN f.to ELSE key
        inner == Alloc(h, [EmptyObject EXCEPT !.props = <<[key |-> "b", val |-> Prim(1)]>>])
        made == CASE matched /\ f.op = "object" -> [h |-> inner, v |-> Fresh(h)]
                  [] matched /\ f.op = "array" ->
                        [h |-> Alloc(inner, [EmptyArray EXCEPT
                                                !.props = <<[key |-> "", val |-> Fresh(h)]>>]),
                         v |-> Fresh(inner)]
                  [] matched /\ f.op = "prim" -> [h |-> h, v |-> Prim(2)]
                  [] f.op = "first" /\ isArray(h, value) /\ Len(h[value.n].props) > 0 ->
                        [h |-> h, v |-> h[value.n].props[1].val]
                  [] OTHER -> [h |-> h, v |-> value]
        promise == ReturnsPromise(f, key)
    IN [h |-> made.h,
        undef |-> f.op = "none" \/ (f.op # "keep" /\ newKey = key /\ made.v = value),
        key |-> newKey,
        value |-> made.v,
        promise |-> promise,
        ignoreNow |-> key = f.skip /\ ~(promise /\ f.late),
        ignoreLater |-> key = f.skip /\ promise /\ f.late]

\* new TraverseNode(path), with what the model records about it: the node
\* it was created under, the call of traverseObject it belongs to and the
\* number of keys of that call, whether fn was invoked with it on a real
\* pair, the value fn left for the key, the value stored in the result, the
\* key it is stored under and the result object it is stored into
TraverseNode(path, parent, frame, width, visited) ==
    [_path |-> path, _ignoreChildren |-> FALSE, ignoreLater |-> FALSE,
     parent |-> parent, frame |-> frame, width |-> width, visited |-> visited,
     given |-> Leaf("undefined", 0), out |-> Leaf("undefined", 0), key |-> "", into |-> 0]

RECURSIVE traverseObject(_, _, _, _, _, _), visitKeys(_, _, _, _, _, _, _),
          processEntries(_, _, _, _, _, _), processEntryCommon(_, _, _, _, _),
          processArray(_, _, _, _, _, _, _)

\* traverseObject(obj, fn, node), node being log[parent] with _path path:
\* [h, log, v]
traverseObject(h, log, obj, f, parent, path) ==
    LET returned(done, result, hasAsyncResult) ==
            LET pending == PromiseOf(done.h, result)
            IN IF hasAsyncResult
               THEN [h |-> pending.h, log |-> done.log, v |-> pending.v]
               ELSE [h |-> done.h, log |-> done.log, v |-> result]
        processed(seen, result, hasAsyncResult) ==
            returned(processEntries(seen.h, seen.log, seen.entries, result, f, hasAsyncResult),
                     result, hasAsyncResult)
        visited(seen, result) ==
            processed(seen, result,
                      \E i \in 1..Len(seen.entries) : seen.entries[i].transformResult.promise)
        cloned(c) ==
            visited(visitKeys(Alloc(c.h, EmptyObject), log, c.v, f, parent, path, 1), Fresh(c.h))
    IN cloned(clone(h, obj))

\* the loop over the keys of cloned that invokes fn, from the i-th key on:
\* [h, log, entries]
visitKeys(h, log, cloned, f, parent, path, i) ==
    IF i > Len(h[cloned.n].props) THEN [h |-> h, log |-> log, entries |-> <<>>]
    ELSE LET key == h[cloned.n].props[i].key
             value == h[cloned.n].props[i].val
             frame == Len(log) - (i - 1) + 1
             pushed(entry, rest) == [rest EXCEPT !.entries = <<entry>> \o @]
             called(r) ==
                 pushed([key |-> key, transformResult |-> r, currentNode |-> Len(log) + 1,
                         originalValue |-> value],
                        visitKeys(r.h,
                                  Append(log, [TraverseNode(Append(path, key), parent, frame,
                                                            Len(h[cloned.n].props), TRUE)
                                                 EXCEPT !._ignoreChildren = r.ignoreNow,
                                                        !.ignoreLater = r.ignoreLater,
                                                        !.given = Deep(r.h, IF r.undef THEN value
                                                                            ELSE r.value)]),
                                  cloned, f, parent, path, i + 1))
         IN called(Visit(h, f, key, value))

\* processEntries reading _ignoreChildren as it was when fn returned its
\* promise, not as it is once the promise has settled
processEntriesUnsettled(h, log, entries, result, f, isAsync) ==
    IF entries = <<>> THEN [h |-> h, log |-> log]
    ELSE LET e == Head(entries)
             stored(r) ==
                 processEntries(Put(r.h, result, r.newKey, r.newValue),
                                [r.log EXCEPT ![e.currentNode].out = Deep(r.h, r.newValue),
                                              ![e.currentNode].key = r.newKey,
                                              ![e.currentNode].into = result.n],
                                Tail(entries), result, f, isAsync)
         IN stored(processEntryCommon(h, log, e, f, isAsync))

\* processEntriesSync (isAsync false) and processEntriesAsync (isAsync true):
\* [h, log]
processEntries(h, log, entries, result, f, isAsync) ==
    IF entries = <<>> THEN [h |-> h, log |-> log]
    ELSE LET e == Head(entries)
             \* await transformResult: the visitor has run to its end
             settled == IF isAsync
                        THEN [log EXCEPT ![e.currentNode]._ignoreChildren =
                                               @ \/ log[e.currentNode].ignoreLater]
                        ELSE log
             stored(r) ==
                 processEntries(Put(r.h, result, r.newKey, r.newValue),
                                [r.log EXCEPT ![e.currentNode].out = Deep(r.h, r.newValue),
                                              ![e.currentNode].key = r.newKey,
                                              ![e.currentNode].into = result.n],
                                Tail(entries), result, f, isAsync)
         IN stored(processEntryCommon(h, settled, e, f, isAsync))

\* processEntryCommon(key, resolvedResult, currentNode, originalValue, fn,
\* isAsync): [h, log, newKey, newValue]
processEntryCommon(h, log, e, f, isAsync) ==
    LET resolvedResult == e.transformResult
        newKey == IF resolvedResult.undef THEN e.key ELSE resolvedResult.key
        newValue == IF resolvedResult.undef THEN e.originalValue ELSE resolvedResult.value
        node == log[e.currentNode]
        descended(sub) ==
            [h |-> sub.h, log |-> sub.log, newKey |-> newKey,
             newValue |-> IF isAsync THEN Await(sub.h, sub.v) ELSE sub.v]
        swept(arr) == [h |-> arr.h, log |-> arr.log, newKey |-> newKey, newValue |-> newValue]
    IN IF Truthy(newValue) /\ ~node._ignoreChildren /\ isPlainObject(h, newValue)
       THEN descended(traverseObject(h, log, newValue, f, e.currentNode, node._path))
       ELSE IF Truthy(newValue) /\ ~node._ignoreChildren /\ isArray(h, newValue)
       THEN swept(processArray(h, log, newValue, f, e.currentNode, isAsync, 1))
       ELSE [h |-> h, log |-> log, newKey |-> newKey, newValue |-> newValue]

\* processArray storing the result of traverseObject without awaiting it
processArrayUnawaited(h, log, array, f, currentNode, isAsync, i) ==
    IF i > Len(h[array.n].props) THEN [h |-> h, log |-> log]
    ELSE LET element == h[array.n].props[i].val
             path == Append(log[currentNode]._path, IndexKey(i - 1))
             childNode == TraverseNode(path, currentNode, 0, 0, FALSE)
             replaced(sub) ==
                 processArray([sub.h EXCEPT ![array.n].props[i].val = sub.v], sub.log,
                              array, f, currentNode, isAsync, i + 1)
         IN IF Truthy(element) /\ isPlainObject(h, element)
            THEN replaced(traverseObject(h, Append(log, childNode), element, f,
                                         Len(log) + 1, path))
            ELSE processArray(h, log, array, f, currentNode, isAsync, i + 1)

\* the loop over the elements of array of processEntryCommon (isAsync false)
\* and of processArrayAsync (isAsync true), from index i - 1 on: [h, log]
processArray(h, log, array, f, currentNode, isAsync, i) ==
    IF i > Len(h[array.n].props) THEN [h |-> h, log |-> log]
    ELSE LET element == h[array.n].props[i].val
             path == Append(log[currentNode]._path, IndexKey(i - 1))
             childNode == TraverseNode(path, currentNode, 0, 0, FALSE)
             replaced(sub) ==
                 processArray([sub.h EXCEPT ![array.n].props[i].val =
                                                IF isAsync THEN Await(sub.h, sub.v) ELSE sub.v],
                              sub.log, array, f, currentNode, isAsync, i + 1)
         IN IF Truthy(element) /\ isPlainObject(h, element)
            THEN replaced(traverseObject(h, Append(log, childNode), element, f,
                                         Len(log) + 1, path))
            ELSE processArray(h, log, array, f, currentNode, isAsync, i + 1)

RECURSIVE mapTraverse(_, _, _, _, _, _)
\* obj.map(value => traverseObject(value, fn)), awaiting each result when
\* isAsync, from the i-th element on: [h, log, items]
mapTraverse(h, log, obj, f, isAsync, i) ==
    IF i > Len(h[obj.n].props) THEN [h |-> h, log |-> log, items |-> <<>>]
    ELSE LET pushed(item, rest) == [rest EXCEPT !.items = <<item>> \o @]
             mapped(sub) ==
                 pushed([key |-> "", val |-> IF isAsync THEN Await(sub.h, sub.v) ELSE sub.v],
                        mapTraverse(sub.h, sub.log, obj, f, isAsync, i + 1))
         IN mapped(traverseObject(h, log, h[obj.n].props[i].val, f, 0, <<>>))

\* traverse(obj, fn): [h, log, v]
traverse(h, obj, f) ==
    LET probe(testResult) ==
            <<[TraverseNode(<<>>, 0, 0, 0, FALSE) EXCEPT
                  !._ignoreChildren = testResult.ignoreNow,
                  !.ignoreLater = testResult.ignoreLater]>>
        gathered(mapped, isAsync) ==
            LET array == [h |-> Push(Alloc(mapped.h, EmptyArray), Fresh(mapped.h), mapped.items),
                          v |-> Fresh(mapped.h)]
                all == PromiseOf(array.h, array.v)
            IN IF isAsync THEN [h |-> all.h, log |-> mapped.log, v |-> all.v]
                          ELSE [h |-> array.h, log |-> mapped.log, v |-> array.v]
        probed(testResult, isAsync) ==
            IF isArray(h, obj)
            THEN gathered(mapTraverse(testResult.h, probe(testResult), obj, f, isAsync, 1), isAsync)
            ELSE IF isPlainObject(h, obj)
            THEN traverseObject(testResult.h, probe(testResult), obj, f, 0, <<>>)
            ELSE [h |-> testResult.h, log |-> probe(testResult), v |-> obj]
        called(testResult) == probed(testResult, testResult.promise)
    IN called(Visit(h, f, ProbeKey, Prim(1)))

(***************************************************************************)
(* The traverse specification: one call of traverse on a generated input   *)
(* with a visitor that returns promises always or never.                   *)
(***************************************************************************)
TraverseAlphabet ==
    [leaves |-> {Leaf("prim", 1)},
     shapes |-> {PlainShape, ArrayShape},
     keys |-> {"a", "b"}]

Visitors(promises) ==
    {f \in [match : {"a"}, rename : BOOLEAN, to : {RenamedKey},
            op : {"none", "keep", "prim", "object", "array", "first"},
            skip : {"", "a", "b"}, promise : promises, late : BOOLEAN] :
        /\ f.op = "none" => ~f.rename
        /\ f.late => (f.promise # "never" /\ f.skip # "")}

InitTraverse ==
    /\ InitInputs(<<>>, TraverseAlphabet, MaxSize, 1)
    /\ fn \in Visitors({"never", "always"})

Traverse ==
    /\ pc = "ready"
    /\ \E r \in {traverse(heap, args[1], fn)} :
        /\ heap' = r.h
        /\ ret' = r.v
        /\ calls' = r.log
    /\ pc' = "traverse"
    /\ UNCHANGED <<pre, args, fn>>
    /\ UNCHANGED notObject

NextTraverse == Traverse

SpecTraverse == InitTraverse /\ [][NextTraverse]_vars

\* the same call with a visitor that may return a promise for the probe pair
\* only, or for every pair but the probe
InitProbe ==
    /\ InitInputs(<<>>, TraverseAlphabet, MaxSize, 1)
    /\ fn \in {f \in Visitors({"never", "always", "probe", "real"}) :
                  f.op \in {"none", "keep"} /\ f.skip = ""}

SpecProbe == InitProbe /\ [][NextTraverse]_vars

\* the same call with a visitor that renames key "a" to a key no sibling
\* has, to the key of a sibling, or to an array index
InitRename ==
    /\ InitInputs(<<>>, TraverseAlphabet, MaxSize, 1)
    /\ fn \in [match : {"a"}, rename : BOOLEAN, to : {RenamedKey, "b", "0"},
               op : {"keep"}, skip : {""}, promise : {"never", "always"}, late : {FALSE}]

SpecRename == InitRename /\ [][NextTraverse]_vars

(***************************************************************************)
(* createPoller (src/src/time.ts).  The closure holds running and timerId; *)
(* the event loop holds the timers set and the promises the polled         *)
(* function returned.  All timers have the same delay, so they fire in the *)
(* order they were set.  The polled function returns a value or throws     *)
(* (both go on to scheduleNext at once) or returns a promise (scheduleNext *)
(* runs when it settles, fulfilled or rejected).                           *)
(***************************************************************************)
Poller ==
    [running |-> running, timerId |-> timerId, timers |-> timers, nextTimer |-> nextTimer,
     unsettled |-> unsettled, invoked |-> invoked, hiddenCalls |-> hiddenCalls]

\* the closure and the event loop become s
Becomes(s) ==
    /\ running' = s.running
    /\ timerId' = s.timerId
    /\ timers' = s.timers
    /\ nextTimer' = s.nextTimer
    /\ unsettled' = s.unsettled
    /\ invoked' = s.invoked
    /\ hiddenCalls' = s.hiddenCalls

\* scheduleNext(), the document being visible or not
scheduleNext(s, v) ==
    IF s.running /\ (~options.pauseWhenHidden \/ v)
    THEN [s EXCEPT !.timerId = s.nextTimer,
                   !.timers = Append(@, s.nextTimer),
                   !.nextTimer = @ + 1]
    ELSE s

\* run(): fn is invoked and returns a promise or not
run(s, v, returnsPromise) ==
    LET called == [s EXCEPT !.invoked = @ + 1,
                            !.hiddenCalls = IF s.running /\ ~v THEN @ + 1 ELSE @]
    IN IF returnsPromise
       THEN [called EXCEPT !.unsettled = @ + 1]
       ELSE scheduleNext(called, v)

InitPoller ==
    /\ heap = <<>> /\ pre = <<>> /\ args = <<>> /\ ret = Undefined
    /\ pc = "poller" /\ fn = NoVisitor /\ calls = <<>>
    /\ \E o \in [pauseWhenHidden : BOOLEAN] : \E v \in BOOLEAN : Created(o, v)
    /\ Debounced([waitInMs |-> 1, immediate |-> FALSE])
    /\ TimeoutCalled([timeoutMs |-> 1, onTimeout |-> "value", onTimeoutEffect |-> FALSE])
    /\ NotDiffing

\* poller.start()
Start ==
    /\ ~running
    /\ invoked < MaxCalls
    /\ \E returnsPromise \in BOOLEAN :
         \E s \in {run([Poller EXCEPT !.running = TRUE], visible, returnsPromise)} :
            Becomes([s EXCEPT !.hiddenCalls = 0])
    /\ listening' = (listening \/ options.pauseWhenHidden)
    /\ UNCHANGED <<visible, options>>
    /\ UNCHANGED notPoller

\* poller.stop()
Stop ==
    /\ Becomes([Poller EXCEPT !.running = FALSE,
                              !.timers = SelectSeq(@, LAMBDA t : t # timerId),
                              !.hiddenCalls = 0])
    /\ listening' = (listening /\ ~options.pauseWhenHidden)
    /\ UNCHANGED <<visible, options>>
    /\ UNCHANGED notPoller

\* the oldest timer fires: run()
TimerFires ==
    /\ timers # <<>>
    /\ invoked < MaxCalls
    /\ \E returnsPromise \in BOOLEAN :
         \E s \in {run([Poller EXCEPT !.timers = Tail(@)], visible, returnsPromise)} :
            Becomes(s)
    /\ UNCHANGED <<visible, listening, options>>
    /\ UNCHANGED notPoller

\* a promise returned by fn settles: scheduleNext()
Settles ==
    /\ unsettled > 0
    /\ Becomes(scheduleNext([Poller EXCEPT !.unsettled = @ - 1], visible))
    /\ UNCHANGED <<visible, listening, options>>
    /\ UNCHANGED notPoller

\* the document becomes hidden or visible; handleVisibility() if it listens
VisibilityChange ==
    /\ invoked < MaxCalls
    /\ visible' = ~visible
    /\ IF listening /\ running /\ ~visible
       THEN \E returnsPromise \in BOOLEAN :
              Becomes(run([Poller EXCEPT !.hiddenCalls = 0], TRUE, returnsPromise))
       ELSE Becomes([Poller EXCEPT !.hiddenCalls = 0])
    /\ UNCHANGED <<listening, options>>
    /\ UNCHANGED notPoller

NextPoller == Start \/ Stop \/ TimerFires \/ Settles \/ VisibilityChange

SpecPoller == InitPoller /\ [][NextPoller]_vars

(***************************************************************************)
(* debounce (src/src/time.ts).  The debounced function is called as a      *)
(* plain function (this is undefined, so storedContext stays undefined),   *)
(* each call with an argument of its own: the k-th call passes k.  func    *)
(* returns its argument.  Time is counted in milliseconds; a timer fires   *)
(* at the time it is due, before or after the calls made at that time.     *)
(***************************************************************************)
Closure ==
    [storedArguments |-> storedArguments, timeoutId |-> timeoutId, timestamp |-> timestamp,
     lastResult |-> lastResult, timeouts |-> timeouts, nextTimeout |-> nextTimeout,
     trace |-> trace]

\* the closure and the timers become s
Continues(s) ==
    /\ storedArguments' = s.storedArguments
    /\ timeoutId' = s.timeoutId
    /\ timestamp' = s.timestamp
    /\ lastResult' = s.lastResult
    /\ timeouts' = s.timeouts
    /\ nextTimeout' = s.nextTimeout
    /\ trace' = s.trace

\* an entry of trace: the operation, the time, the argument, for an
\* invocation of func where run() was entered from, and whether a timer was
\* pending and arguments were stored when the operation began
Event(op, arg, by, s) ==
    [op |-> op, at |-> now, arg |-> arg, by |-> by, pending |-> s.timeoutId # 0,
     stored |-> s.storedArguments # 0]

\* timeoutId = setTimeout(later, delay)
setLater(s, delay) ==
    [s EXCEPT !.timeoutId = s.nextTimeout,
              !.timeouts = @ \cup {[id |-> s.nextTimeout, due |-> now + delay]},
              !.nextTimeout = @ + 1]

\* run(), entered from by: func is invoked with storedArguments
debounceRun(s, by) ==
    [s EXCEPT !.storedArguments = 0,
              !.lastResult = s.storedArguments,
              !.trace = Append(@, Event("func", s.storedArguments, by, s))]

\* later() always taking its else branch
laterWithoutRestart(s) ==
    IF debounceOptions.immediate
    THEN [s EXCEPT !.timeoutId = 0]
    ELSE debounceRun([s EXCEPT !.timeoutId = 0], "timer")

\* later()
later(s) ==
    LET last == now - s.timestamp
    IN IF last < debounceOptions.waitInMs /\ now >= s.timestamp
       THEN setLater(s, debounceOptions.waitInMs - last)
       ELSE IF debounceOptions.immediate
       THEN [s EXCEPT !.timeoutId = 0]
       ELSE debounceRun([s EXCEPT !.timeoutId = 0], "timer")

\* debounced(arg) invoking func whenever immediate is set
debouncedAlwaysNow(s, arg) ==
    LET stored == [s EXCEPT !.storedArguments = arg,
                            !.timestamp = now,
                            !.trace = Append(@, Event("call", arg, "", s))]
        timed == IF s.timeoutId = 0 THEN setLater(stored, debounceOptions.waitInMs) ELSE stored
    IN IF debounceOptions.immediate THEN debounceRun(timed, "call") ELSE timed

\* debounced(arg)
debounced(s, arg) ==
    LET callNow == debounceOptions.immediate /\ s.timeoutId = 0
        stored == [s EXCEPT !.storedArguments = arg,
                            !.timestamp = now,
                            !.trace = Append(@, Event("call", arg, "", s))]
        timed == IF s.timeoutId = 0 THEN setLater(stored, debounceOptions.waitInMs) ELSE stored
    IN IF callNow THEN debounceRun(timed, "call") ELSE timed

\* debounced.clear() forgetting the timer without clearing it
clearWithoutClearTimeout(s) == [s EXCEPT !.timeoutId = 0]

\* debounced.clear()
clear(s) ==
    IF s.timeoutId = 0 THEN s
    ELSE [s EXCEPT !.timeouts = {t \in @ : t.id # s.timeoutId},
                   !.timeoutId = 0]

\* debounced.trigger() leaving the timer pending
triggerWithoutClear(s) == debounceRun(s, "trigger")

\* debounced.trigger()
trigger(s) == clear(debounceRun(s, "trigger"))

Count(ops) == Len(SelectSeq(trace, LAMBDA e : e.op \in ops))

InitDebounce ==
    /\ heap = <<>> /\ pre = <<>> /\ args = <<>> /\ ret = Undefined
    /\ pc = "debounce" /\ fn = NoVisitor /\ calls = <<>>
    /\ Created([pauseWhenHidden |-> FALSE], TRUE)
    /\ TimeoutCalled([timeoutMs |-> 1, onTimeout |-> "value", onTimeoutEffect |-> FALSE])
    /\ NotDiffing
    /\ \E o \in [waitInMs : 1..MaxWait, immediate : BOOLEAN] : Debounced(o)

\* the debounced function is called
Call ==
    /\ Count({"call"}) < MaxDebounced
    /\ Continues(debounced(Closure, Count({"call"}) + 1))
    /\ UNCHANGED <<now, debounceOptions>>
    /\ UNCHANGED notDebounce

\* a timer that is due fires: later()
Later ==
    /\ \E t \in timeouts :
          /\ t.due <= now
          /\ Continues(later([Closure EXCEPT !.timeouts = @ \ {t}]))
    /\ UNCHANGED <<now, debounceOptions>>
    /\ UNCHANGED notDebounce

\* debounced.clear() is called
Clear ==
    /\ Count({"clear", "trigger"}) < MaxControls
    /\ Continues(clear([Closure EXCEPT !.trace = Append(@, Event("clear", 0, "", Closure))]))
    /\ UNCHANGED <<now, debounceOptions>>
    /\ UNCHANGED notDebounce

\* debounced.trigger() is called
Trigger ==
    /\ Count({"clear", "trigger"}) < MaxControls
    /\ Continues(trigger([Closure EXCEPT !.trace = Append(@, Event("trigger", 0, "", Closure))]))
    /\ UNCHANGED <<now, debounceOptions>>
    /\ UNCHANGED notDebounce

\* a millisecond passes, no timer being due
Tick ==
    /\ now < MaxTime
    /\ \A t \in timeouts : t.due > now
    /\ now' = now + 1
    /\ UNCHANGED <<debounceOptions, storedArguments, timeoutId, timestamp, lastResult,
                   timeouts, nextTimeout, trace>>
    /\ UNCHANGED notDebounce

NextDebounce == Call \/ Later \/ Clear \/ Trigger \/ Tick

SpecDebounce == InitDebounce /\ [][NextDebounce]_vars

(***************************************************************************)
(* timeout (src/unnamed/part_004).  timeout(promise, options) sets a timer *)
(* of timeoutMs and awaits Promise.race([promise, timeoutPromise]).  The   *)
(* promise passed in fulfils or rejects at any time.  onTimeout is a       *)
(* value, a function returning a value, or a function returning a promise *)
(* that fulfils or rejects later.  What follows a settlement in the same   *)
(* turn of the event loop (the race settling, the finally block, the       *)
(* returned promise settling) is part of the step of the settlement.       *)
(* The returned promise is pending, or settled as the promise passed in    *)
(* ("value", "rejected") or with the fallback ("fallback").                *)
(***************************************************************************)
OnTimeoutKinds == {"value", "function", "async function"}

InitTimeout ==
    /\ heap = <<>> /\ pre = <<>> /\ args = <<>> /\ ret = Undefined
    /\ pc = "timeout" /\ fn = NoVisitor /\ calls = <<>>
    /\ Created([pauseWhenHidden |-> FALSE], TRUE)
    /\ Debounced([waitInMs |-> 1, immediate |-> FALSE])
    /\ \E o \in [timeoutMs : 1..MaxTimeoutMs, onTimeout : OnTimeoutKinds,
                 onTimeoutEffect : BOOLEAN] : TimeoutCalled(o)
    /\ NotDiffing

\* a member of the race settles as settled: the await returns or throws,
\* the finally block clears the timer, the returned promise settles; a race
\* that has settled stays as it is
raceSettles(settled) ==
    IF outcome = "pending"
    THEN /\ outcome' = settled
         /\ timeoutTimer' = IF timeoutTimer = "set" THEN "cleared" ELSE timeoutTimer
    ELSE UNCHANGED <<outcome, timeoutTimer>>

\* the promise passed to timeout fulfils or rejects
PromiseSettles ==
    /\ original.state = "pending"
    /\ \E state \in {"fulfilled", "rejected"} :
          /\ original' = [state |-> state, at |-> elapsed]
          /\ raceSettles(IF state = "fulfilled" THEN "value" ELSE "rejected")
    /\ UNCHANGED <<elapsed, timeoutOptions, fallback, effects>>
    /\ UNCHANGED notTimeout

\* the timer fires: onTimeoutEffect, then resolve(onTimeout) or
\* resolve(await onTimeout())
TimeoutFires ==
    /\ timeoutTimer = "set"
    /\ elapsed >= timeoutOptions.timeoutMs
    /\ effects' = IF timeoutOptions.onTimeoutEffect THEN effects + 1 ELSE effects
    /\ IF timeoutOptions.onTimeout = "async function"
       THEN /\ fallback' = "pending"
            /\ timeoutTimer' = "fired"
            /\ UNCHANGED outcome
       ELSE /\ fallback' = fallback
            /\ timeoutTimer' = "fired"
            /\ outcome' = IF outcome = "pending" THEN "fallback" ELSE outcome
    /\ UNCHANGED <<elapsed, timeoutOptions, original>>
    /\ UNCHANGED notTimeout

\* the promise returned by onTimeout fulfils (resolve is called with its
\* value) or rejects (the timer's callback rejects and resolve is not called)
FallbackSettles ==
    /\ fallback = "pending"
    /\ \E state \in {"fulfilled", "rejected"} :
          /\ fallback' = state
          /\ IF state = "fulfilled" THEN raceSettles("fallback")
                                    ELSE UNCHANGED <<outcome, timeoutTimer>>
    /\ UNCHANGED <<elapsed, timeoutOptions, original, effects>>
    /\ UNCHANGED notTimeout

\* a millisecond passes, the timer not being due
Elapses ==
    /\ elapsed < MaxElapsed
    /\ timeoutTimer = "set" => elapsed < timeoutOptions.timeoutMs
    /\ elapsed' = elapsed + 1
    /\ UNCHANGED <<timeoutOptions, original, timeoutTimer, fallback, outcome, effects>>
    /\ UNCHANGED notTimeout

NextTimeout == PromiseSettles \/ TimeoutFires \/ FallbackSettles \/ Elapses

SpecTimeout == InitTimeout /\ [][NextTimeout]_vars

(***************************************************************************)
(* omit (src/src/math.ts).  One call of omit(obj, keys, omitUndefined) on  *)
(* a generated obj; fn holds keys and omitUndefined.                       *)
(***************************************************************************)
RECURSIVE HasProperty(_, _, _)
\* key in v: an own property or one of the prototype chain
HasProperty(h, v, key) ==
    /\ IsRef(v)
    /\ \/ OwnIndex(h[v.n], key) # 0
       \/ h[v.n].proto.tag = "ref" /\ HasProperty(h, h[v.n].proto, key)
       \/ /\ h[v.n].proto.tag \in {"Object.prototype", "Class.prototype"}
          /\ key \in {"__proto__", "constructor"}

\* delete v[key] on an object that is not frozen
Delete(h, v, key) ==
    LET i == OwnIndex(h[v.n], key)
    IN IF i = 0 THEN h
       ELSE [h EXCEPT ![v.n].props = SubSeq(@, 1, i - 1) \o SubSeq(@, i + 1, Len(@))]

RECURSIVE omitKeys(_, _, _, _, _, _)
\* the reduce over keys, from the i-th key on: the heap after it
omitKeys(h, objClone, obj, keys, omitUndefined, i) ==
    IF i > Len(keys) THEN h
    ELSE IF /\ HasProperty(h, objClone, keys[i])
            /\ ~omitUndefined \/ Get(h, obj, keys[i]) # Undefined
    THEN omitKeys(Delete(h, objClone, keys[i]), objClone, obj, keys, omitUndefined, i + 1)
    ELSE omitKeys(h, objClone, obj, keys, omitUndefined, i + 1)

\* omit(obj, keys, omitUndefined): [h |-> the heap after the call, v |-> the
\* returned value]
omit(h, obj, keys, omitUndefined) ==
    LET objClone == clone(h, obj)
    IN [h |-> omitKeys(objClone.h, objClone.v, obj, keys, omitUndefined, 1), v |-> objClone.v]

OmitAlphabet ==
    [leaves |-> {Leaf("prim", 1), Leaf("undefined", 0)},
     shapes |-> {PlainShape, ArrayShape},
     keys |-> {"a", "b"}]

\* the lists of at most n keys
KeyLists(n) == UNION {[1..m -> OmitAlphabet.keys] : m \in 0..n}

InitOmit ==
    /\ \E keys \in KeyLists(MaxKeys), omitUndefined \in BOOLEAN :
         fn = [op |-> "omit", keys |-> keys, omitUndefined |-> omitUndefined]
    /\ InitInputs(<<>>, OmitAlphabet, MaxSize, 1)

Omit ==
    /\ pc = "ready"
    /\ \E r \in {omit(heap, args[1], fn.keys, fn.omitUndefined)} :
        /\ heap' = r.h
        /\ ret' = r.v
    /\ pc' = "omit"
    /\ UNCHANGED <<pre, args, fn, calls>>
    /\ UNCHANGED notObject

NextOmit == Omit

SpecOmit == InitOmit /\ [][NextOmit]_vars

(***************************************************************************)
(* diffObjectsInArrays (src/unnamed/part_003).  An item is an object with  *)
(* identity ref and the properties id and name, 0 standing for a property  *)
(* the object does not have (reading it gives undefined).  An array may    *)
(* hold the same object twice, and newArray may hold objects of            *)
(* previousArray.  A diff holds indices from 0, NullIndex and NullItem     *)
(* standing for null.                                                      *)
(***************************************************************************)
ItemKeys == <<"id", "name">>
Contents == [id : {1, 2}, name : {0, 1}]
NullIndex == -1
NullItem == [ref |-> 0, id |-> 0, name |-> 0]

Diff(previousItem, newItem, status, previousIndex, newIndex) ==
    [previousItem |-> previousItem, newItem |-> newItem, status |-> status,
     previousIndex |-> previousIndex, newIndex |-> newIndex]

\* Object.keys(obj)
ObjectKeys(obj) == SelectSeq(ItemKeys, LAMBDA key : obj[key] # 0)

\* arr.find(...): the first obj of arr that has objToFind's value at every
\* key of keys, NullItem standing for undefined
findObjByKey(arr, objToFind, keys) ==
    LET found == {i \in 1..Len(arr) :
                     \A x \in 1..Len(keys) : arr[i][keys[x]] = objToFind[keys[x]]}
    IN IF found = {} THEN NullItem ELSE arr[CHOOSE i \in found : \A j \in found : i <= j]

\* areObjectsEqual comparing no key
areObjectsEqualOnNoKey(obj1, obj2, compareKeys) == TRUE

areObjectsEqual(obj1, obj2, compareKeys) ==
    \A x \in 1..Len(compareKeys) : obj1[compareKeys[x]] = obj2[compareKeys[x]]

\* previousArray.indexOf(obj), from 0: the first place that holds obj itself
indexOf(arr, obj) ==
    LET places == {i \in 1..Len(arr) : arr[i].ref = obj.ref}
    IN IF places = {} THEN -1 ELSE (CHOOSE i \in places : \A j \in places : i <= j) - 1

RECURSIVE diffNewItems(_, _, _, _, _, _)
\* newArray.forEach from index newIndex on, d being [diffs, markedPreviousItems]
diffNewItems(p, n, k, u, newIndex, d) ==
    IF newIndex >= Len(n) THEN d
    ELSE LET newItem == n[newIndex + 1]
             compared == IF k.given THEN k.keys ELSE ObjectKeys(newItem)
             previousItem == IF u.given THEN findObjByKey(p, newItem, u.keys)
                             ELSE findObjByKey(p, newItem, compared)
             previousIndex == indexOf(p, previousItem)
             status == IF ~areObjectsEqual(newItem, previousItem, compared) THEN "updated"
                       ELSE IF previousIndex # newIndex THEN "moved"
                       ELSE "equal"
         IN IF previousItem = NullItem
            THEN diffNewItems(p, n, k, u, newIndex + 1,
                     [d EXCEPT !.diffs = Append(@, Diff(NullItem, newItem, "added",
                                                        NullIndex, newIndex))])
            ELSE diffNewItems(p, n, k, u, newIndex + 1,
                     [diffs |-> Append(d.diffs, Diff(previousItem, newItem, status,
                                                     previousIndex, newIndex)),
                      markedPreviousItems |->
                          [d.markedPreviousItems EXCEPT ![previousIndex + 1] = TRUE]])

RECURSIVE diffDeletedItems(_, _, _, _)
\* markedPreviousItems.forEach from index on
diffDeletedItems(p, markedPreviousItems, index, d) ==
    IF index >= Len(p) THEN d
    ELSE diffDeletedItems(p, markedPreviousItems, index + 1,
             IF ~markedPreviousItems[index + 1]
             THEN Append(d, Diff(p[index + 1], NullItem, "deleted", index, NullIndex))
             ELSE d)

diffObjectsInArrays(p, n, k, u) ==
    LET d == diffNewItems(p, n, k, u, 0,
                 [diffs |-> <<>>, markedPreviousItems |-> [i \in 1..Len(p) |-> FALSE]])
    IN diffDeletedItems(p, d.markedPreviousItems, 0, d.diffs)

\* arr with one more element: a new object with its own identity, an object
\* arr holds already, or one of the objects of shared
Extended(arr, shared, base) ==
    {Append(arr, [ref |-> base + Len(arr) + 1, id |-> c.id, name |-> c.name]) : c \in Contents}
        \cup {Append(arr, obj) : obj \in shared \cup {arr[i] : i \in 1..Len(arr)}}

RECURSIVE Arrays(_, _, _, _)
\* the arrays of at most len elements that begin with arr
Arrays(arr, shared, base, len) ==
    {arr} \cup (IF Len(arr) < len
                THEN UNION {Arrays(a, shared, base, len) : a \in Extended(arr, shared, base)}
                ELSE {})

InitDiff ==
    /\ heap = <<>> /\ pre = <<>> /\ args = <<>> /\ ret = Undefined
    /\ pc = "ready" /\ fn = NoVisitor /\ calls = <<>>
    /\ Created([pauseWhenHidden |-> FALSE], TRUE)
    /\ Debounced([waitInMs |-> 1, immediate |-> FALSE])
    /\ TimeoutCalled([timeoutMs |-> 1, onTimeout |-> "value", onTimeoutEffect |-> FALSE])
    /\ \E p \in Arrays(<<>>, {}, 0, MaxLen) :
         \E n \in Arrays(<<>>, {p[i] : i \in 1..Len(p)}, MaxLen, MaxLen) :
           \E k \in {NotGiven, Given(<<"name">>), Given(<<"id", "name">>)} :
             \E u \in {NotGiven, Given(<<"id">>)} :
               Diffing(p, n, k, u)

DiffObjectsInArrays ==
    /\ pc = "ready"
    /\ diffs' = diffObjectsInArrays(previousArray, newArray, keysToCompare, uniqueKeys)
    /\ pc' = "diffObjectsInArrays"
    /\ UNCHANGED <<previousArray, newArray, keysToCompare, uniqueKeys>>
    /\ UNCHANGED notDiff

NextDiff == DiffObjectsInArrays

SpecDiff == InitDiff /\ [][NextDiff]_vars

\* C1: for a plain-object input x, clone(x) shares no plain object and no
\* array with x, at any depth.
C1_CloneSharesNoContainer ==
    (pc = "clone" /\ isPlainObject(pre, args[1]))
        => Containers(heap, ret) \cap Containers(heap, args[1]) = {}

\* C2: deepMerge never mutates its arguments: every source, and every
\* object or array reachable from it, is after the call as it was before.
C2_MergeLeavesSourcesUnchanged ==
    pc = "deepMerge" =>
        /\ \A i \in 1..Len(args) : Deep(heap, args[i]) = Deep(pre, args[i])
        /\ \A a \in 1..Len(pre) : heap[a] = pre[a]

\* C2 witness: deepMerge has merged two plain-object sources that both hold
\* a plain object under the same key, so the nested merge has run.
C2_Witness ==
    /\ pc = "deepMerge"
    /\ Len(args) = 2
    /\ \A i \in 1..2 : isPlainObject(pre, args[i]) /\ isPlainObject(pre, Get(pre, args[i], "a"))
    /\ isPlainObject(heap, Get(heap, ret, "a"))

\* the objects of the merged tree: those reachable from the result through
\* own properties and prototypes set by the merge
RECURSIVE MergedAt(_, _)
MergedAt(h, a) ==
    {a} \cup UNION {MergedAt(h, h[a].props[i].val.n) :
                       i \in {j \in 1..Len(h[a].props) : IsRef(h[a].props[j].val)}}
        \cup (IF h[a].proto.tag = "ref" THEN MergedAt(h, h[a].proto.n) ELSE {})

\* C3: an own key __proto__, constructor or prototype of a source, at any
\* depth, is never copied into the result of deepMerge and never changes the
\* prototype of the result or of an object nested in it.
C3_MergeSkipsReservedKeys ==
    (pc = "deepMerge" /\ IsRef(ret)) =>
        \A a \in MergedAt(heap, ret.n) :
            a > Len(pre) =>
                /\ \A i \in 1..Len(heap[a].props) : heap[a].props[i].key \notin ReservedKeys
                /\ heap[a].proto.tag # "ref"

\* C4: the tree deepMerge returns shares no plain object and no array with
\* any source.
C4_MergeSharesNoContainer ==
    pc = "deepMerge" =>
        \A i \in 1..Len(args) : Containers(heap, ret) \cap Containers(heap, args[i]) = {}

\* C5: after makeReadonly(v), every object and array reachable from the
\* returned value through own properties is frozen, those inside arrays and
\* inside values frozen before the call included.
C5_ReadonlyFreezesEveryObject ==
    pc = "makeReadonly" =>
        \A a \in Reach(heap, ret) : IsObjectType(heap, Ref(a)) => heap[a].frozen

\* C6: makeReadonly(v) freezes no object reachable from v: what was writable
\* before the call is writable after it.
C6_ReadonlyLeavesOriginalMutable ==
    pc = "makeReadonly" =>
        \A a \in Reach(pre, args[1]) : heap[a].frozen = pre[a].frozen

\* C7: traverse(v, visit) writes to no object or array reachable from v,
\* whether the visitor returns promises or not.
C7_TraverseLeavesInputUnchanged ==
    pc = "traverse" => \A a \in Reach(pre, args[1]) : heap[a] = pre[a]

\* the TraverseNodes calls[j] was created under, nearest first
RECURSIVE Ancestors(_)
Ancestors(j) ==
    IF calls[j].parent = 0 THEN {} ELSE {calls[j].parent} \cup Ancestors(calls[j].parent)

SkipSet(i) == calls[i].visited /\ (calls[i]._ignoreChildren \/ calls[i].ignoreLater)

\* C8: when the visitor sets the skip-children flag on the node of a key,
\* before or after it suspends, it is invoked for no key nested below that
\* key, the value it left for the key is stored in the result as it is, and
\* every sibling of the key is visited.
C8_SkipChildrenPrunes ==
    pc = "traverse" =>
        \A i \in 1..Len(calls) :
            SkipSet(i) =>
                /\ \A j \in 1..Len(calls) : calls[j].visited => i \notin Ancestors(j)
                /\ calls[i].out = calls[i].given
                /\ Cardinality({j \in 1..Len(calls) :
                                   calls[j].visited /\ calls[j].frame = calls[i].frame})
                     = calls[i].width

\* C8 witness: the flag was set after the visitor suspended, on a key whose
\* value holds a plain object, and the key has a sibling that was visited.
C8_Witness ==
    /\ pc = "traverse"
    /\ \E i \in 1..Len(calls) :
          /\ calls[i].visited /\ calls[i].ignoreLater
          /\ calls[i].width = 2
          /\ calls[i].given.kids # <<>>

\* C9: the probe alone fixes the mode of a traverse call: no promise for the
\* probe pair, no promise returned and none anywhere in the returned tree; a
\* promise for the probe pair, a promise returned for every plain object and
\* array.
C9_ProbeFixesMode ==
    pc = "traverse" =>
        IF ReturnsPromise(fn, ProbeKey)
        THEN IsContainer(pre, args[1]) => isPromise(heap, ret)
        ELSE \A a \in Reach(heap, ret) : ~isPromise(heap, Ref(a))

\* the visitor applying fn's rule without promises
SyncVisitor == [fn EXCEPT !.promise = "never", !.late = FALSE]

\* C10: with a visitor returning its rule's result as a promise, traverse
\* resolves to a tree deep-equal to the one it returns with the synchronous
\* visitor applying the same rule.
C10_AsyncParity ==
    (pc = "traverse" /\ fn.promise = "always") =>
        LET sync == traverse(pre, args[1], SyncVisitor)
        IN Deep(heap, Await(heap, ret)) = Deep(sync.h, sync.v)

\* C10 witness: an asynchronous visitor that renames a key and replaces its
\* value with an array has rewritten a plain object held in an array.
C10_Witness ==
    /\ pc = "traverse"
    /\ fn.promise = "always" /\ fn.rename /\ fn.op = "array"
    /\ isPromise(heap, ret)
    /\ \E i \in 1..Len(calls) :
          calls[i].visited /\ Len(calls[i]._path) = 3 /\ calls[i]._path[3] = "a"

\* C11: when the value passed to traverse is an array, every element that is
\* not a plain object is at the same index of the (awaited) result as it is,
\* and the result has as many elements as the input.
C11_TopLevelArrayPassesThrough ==
    (pc = "traverse" /\ isArray(pre, args[1])) =>
        LET out == Await(heap, ret)
            input == pre[args[1].n].props
        IN /\ isArray(heap, out)
           /\ Len(heap[out.n].props) = Len(input)
           /\ \A i \in 1..Len(input) :
                ~isPlainObject(pre, input[i].val) => heap[out.n].props[i].val = input[i].val

\* the arguments of the call that are plain objects, in order
PlainArgs == SelectSeq(args, LAMBDA v : isPlainObject(pre, v))

\* C12: the result of deepMerge is the result of merging its plain-object
\* arguments alone, left to right: an argument that is not a plain object
\* is ignored and the arguments after it are still merged.
C12_MergeFoldsPlainArgs ==
    pc = "deepMerge" =>
        LET fold == deepMerge(pre, PlainArgs)
        IN Deep(heap, ret) = Deep(fold.h, fold.v)

\* the arguments are plain objects whose values, at any depth, are
\* primitives, undefined or plain objects
PlainTrees ==
    \A i \in 1..Len(args) :
        /\ isPlainObject(pre, args[i])
        /\ \A a \in Reach(pre, args[i]) : isPlainObject(pre, Ref(a))

LastPlainArg == PlainArgs[Len(PlainArgs)]

RECURSIVE ArraysReplaced(_, _)
\* under every key of the source object src that holds an array, the result
\* object res holds an array of the same elements in the same order, and so
\* on below every key under which both hold a plain object
ArraysReplaced(res, src) ==
    \A i \in 1..Len(pre[src.n].props) :
        LET key == pre[src.n].props[i].key
            sv == pre[src.n].props[i].val
            rv == Get(heap, res, key)
        IN key \notin ReservedKeys =>
             /\ isArray(pre, sv) =>
                  /\ isArray(heap, rv)
                  /\ [j \in 1..Len(heap[rv.n].props) |-> heap[rv.n].props[j].val]
                       = [j \in 1..Len(pre[sv.n].props) |-> pre[sv.n].props[j].val]
             /\ (isPlainObject(pre, sv) /\ isPlainObject(heap, rv)) => ArraysReplaced(rv, sv)

IsInstance(h, v) == KindOf(h, v) = "Object" /\ ~isPlainObject(h, v)

\* the values the plain objects among cands hold under their own key key
Under(cands, key) ==
    LET having == SelectSeq(cands, LAMBDA c : isPlainObject(pre, c) /\ OwnIndex(pre[c.n], key) # 0)
    IN [j \in 1..Len(having) |-> Get(pre, having[j], key)]

RECURSIVE SpecialsCloned(_, _)
\* below the result object res, cands being the values the sources hold at
\* the place of res in argument order: a Date, RegExp, Map or Set is a new
\* object with the kind and content of the value of the last source that
\* has the place, and a class instance is that source's value itself
SpecialsCloned(res, cands) ==
    \A i \in 1..Len(heap[res.n].props) :
        LET key == heap[res.n].props[i].key
            rv == heap[res.n].props[i].val
            from == Under(cands, key)
            last == from[Len(from)]
        IN /\ HasContent(heap, rv) =>
                /\ from # <<>>
                /\ rv.n > Len(pre)
                /\ KindOf(pre, last) = KindOf(heap, rv)
                /\ pre[last.n].data = heap[rv.n].data
           /\ IsInstance(heap, rv) => (from # <<>> /\ rv = last)
           /\ isPlainObject(heap, rv) => SpecialsCloned(rv, from)

\* C15: every Date, RegExp, Map or Set in the result of deepMerge, at any
\* depth of plain objects, is a new instance with the content of the source
\* value it comes from, whether that source is the last or an earlier one;
\* a class instance is in the result by reference.
C15_MergeClonesSpecialObjects ==
    (pc = "deepMerge" /\ IsRef(ret)) => SpecialsCloned(ret, args)

\* C15 witness: the result holds a Date that only the first source has and
\* a Date with which the second source overrides the first one's.
C15_Witness ==
    /\ pc = "deepMerge" /\ Len(args) = 2
    /\ HasContent(pre, Get(pre, args[1], "a")) /\ Get(pre, args[2], "a") = Undefined
    /\ HasContent(pre, Get(pre, args[2], "b"))
    /\ HasContent(heap, Get(heap, ret, "a")) /\ HasContent(heap, Get(heap, ret, "b"))
    /\ Get(heap, ret, "a") # Get(pre, args[1], "a")

\* a Date, RegExp, Map, Set, function or class instance
IsOpaque(h, v) == IsRef(v) /\ ~isPlainObject(h, v) /\ ~isArray(h, v)

RECURSIVE PassesThrough(_, _)
\* res is a new object; under each key where the plain object src holds an
\* opaque value res holds that value itself, and under each key where src
\* holds a plain object res holds an object of which the same is true
PassesThrough(res, src) ==
    /\ IsRef(res) /\ res.n > Len(pre)
    /\ \A i \in 1..Len(pre[src.n].props) :
        LET key == pre[src.n].props[i].key
            sv == pre[src.n].props[i].val
        IN /\ IsOpaque(pre, sv) => Get(heap, res, key) = sv
           /\ isPlainObject(pre, sv) => PassesThrough(Get(heap, res, key), sv)

C17_CloneDispatchesOnKind ==
    (pc = "clone" /\ ~isPlainObject(pre, args[1])) =>
        IF isArray(pre, args[1])
        THEN /\ isArray(heap, ret)
             /\ ret # args[1]
             /\ Len(heap[ret.n].props) = Len(pre[args[1].n].props)
        ELSE ret = args[1]

\* the path of a node is the path of the node it was created under followed
\* by one more key; under no node it is that key alone, preceded by the
\* index of the element when the value passed to traverse is an array
PathComplete(node) ==
    LET p == node._path
    IN /\ p # <<>>
       /\ IF node.parent # 0
          THEN SubSeq(p, 1, Len(p) - 1) = calls[node.parent]._path
          ELSE IF isArray(pre, args[1])
          THEN /\ Len(p) = 2
               /\ \E j \in 1..Len(pre[args[1].n].props) : p[1] = IndexKey(j - 1)
          ELSE Len(p) = 1

\* C18: for every invocation of the visitor on a real pair, getPath() is
\* the complete sequence of keys and array indices from the root value to
\* the visited key, the index of a top-level array element included.
C18_PathIsComplete ==
    pc = "traverse" =>
        \A i \in 1..Len(calls) : calls[i].visited => PathComplete(calls[i])

\* the same for every call of traverse on a value that is not an array
PathIsCompleteBelowObject ==
    (pc = "traverse" /\ ~isArray(pre, args[1])) =>
        \A i \in 1..Len(calls) : calls[i].visited => PathComplete(calls[i])

\* C19: once stop() has returned and until start() is called again, no step
\* of the poller (a timer firing, a visibilitychange event, a promise
\* settling, another stop()) invokes the polled function.
C19_NoPollAfterStop ==
    [][(~running /\ ~running') => invoked' = invoked]_vars

\* C20: with pauseWhenHidden, while the document stays hidden and the poller
\* stays running, the polled function is invoked at most once and no timer
\* is set.
C20_HiddenPollsAtMostOnce ==
    /\ []((options.pauseWhenHidden /\ running /\ ~visible) => hiddenCalls <= 1)
    /\ [][(options.pauseWhenHidden /\ running /\ ~visible /\ running' /\ ~visible')
            => nextTimer' = nextTimer]_vars

\* C29: at any moment a poller has at most one pending timer, which is the
\* one recorded in timerId, and at most one unsettled invocation of the
\* polled function.
C29_OneTimerOneInvocation ==
    /\ Len(timers) <= 1
    /\ unsettled <= 1
    /\ \A i \in 1..Len(timers) : timers[i] = timerId

\* the nodes of the call of traverseObject that node i belongs to
Siblings(i) == calls[i].frame..(calls[i].frame + calls[i].width - 1)

\* the keys of the object a call of traverseObject was made on: the root
\* value, or the value the visitor left for the key the call was made under
EnumeratedKeys(i) ==
    LET p == calls[i].parent
        kids == IF p = 0 THEN Deep(pre, args[1]).kids ELSE calls[p].given.kids
    IN [k \in 1..Len(kids) |-> kids[k].key]

\* the visitor is invoked on all keys of an object, in enumeration order,
\* before it is invoked on any key below one of them
VisitsSiblingsFirst ==
    \A i \in 1..Len(calls) :
        calls[i].visited =>
            /\ \A j \in Siblings(i) : calls[j].visited /\ calls[j].frame = calls[i].frame
            /\ \A x \in 1..Len(calls) :
                 i \in Ancestors(x) => \A j \in Siblings(i) : j < x
            /\ (IF calls[i].parent = 0 THEN isPlainObject(pre, args[1])
                                       ELSE calls[calls[i].parent].visited)
                 => [k \in 1..calls[i].width |->
                        calls[calls[i].frame + k - 1]._path[Len(calls[i]._path)]]
                    = EnumeratedKeys(i)

\* the subtrees of sibling keys are descended into in sibling order
DescendsInSiblingOrder ==
    \A i \in 1..Len(calls) : \A j \in 1..Len(calls) :
        (calls[i].visited /\ calls[j].visited /\ calls[i].frame = calls[j].frame /\ i < j) =>
            \A x \in 1..Len(calls) : \A y \in 1..Len(calls) :
                (i \in Ancestors(x) /\ j \in Ancestors(y)) => x < y

VisitedPaths(log) ==
    LET seen == SelectSeq(log, LAMBDA node : node.visited)
    IN [k \in 1..Len(seen) |-> seen[k]._path]

\* the visitor that applies fn's rule but keeps every key
KeepingVisitor == [fn EXCEPT !.rename = FALSE]

\* with and without the renaming the same keys are visited in the same order
RenameKeepsVisits ==
    VisitedPaths(calls) = VisitedPaths(traverse(pre, args[1], KeepingVisitor).log)

RECURSIVE Distinct(_)
\* keys without the repetitions of a key
Distinct(keys) ==
    IF keys = <<>> THEN <<>>
    ELSE LET front == Distinct(SubSeq(keys, 1, Len(keys) - 1))
             last == keys[Len(keys)]
         IN IF \E k \in 1..Len(front) : front[k] = last THEN front ELSE Append(front, last)

\* a result object lists the keys stored into it in the order visited
ResultListsKeysInOrder ==
    \A i \in 1..Len(calls) :
        calls[i].visited =>
            [k \in 1..Len(heap[calls[i].into].props) |-> heap[calls[i].into].props[k].key]
              = Distinct([k \in 1..calls[i].width |-> calls[calls[i].frame + k - 1].key])

\* C28: within one call of traverse the visitor is invoked on all keys of an
\* object, in enumeration order, before any key below them; the subtrees of
\* sibling keys are descended into in sibling order; renaming changes neither
\* which keys are visited nor their order; and each result object lists the
\* (possibly renamed) keys in the order visited.
C28_VisitOrder ==
    pc = "traverse" =>
        /\ VisitsSiblingsFirst
        /\ DescendsInSiblingOrder
        /\ RenameKeepsVisits
        /\ ResultListsKeysInOrder

\* the index in trace of the last call of the debounced function before the
\* k-th event, 0 when there is none
LastCall(k) ==
    LET before == {i \in 1..(k - 1) : trace[i].op = "call"}
    IN IF before = {} THEN 0 ELSE CHOOSE i \in before : \A j \in before : j <= i

\* the index of the first call of the debounced function, clear or trigger
\* after the k-th event, 0 when there is none
NextUse(k) ==
    LET after == {i \in (k + 1)..Len(trace) : trace[i].op # "func"}
    IN IF after = {} THEN 0 ELSE CHOOSE i \in after : \A j \in after : i <= j

Invokes(k, by) == trace[k].op = "func" /\ trace[k].by = by

\* C21: with immediate off, func is invoked by no call, and by a timer only
\* waitInMs after the last call, with that call's argument and once; and it
\* is invoked once waitInMs have passed after a call with no other use of
\* the debounced function in between.
C21_DebounceRunsAfterPause ==
    (pc = "debounce" /\ ~debounceOptions.immediate) =>
        /\ \A k \in 1..Len(trace) : ~Invokes(k, "call")
        /\ \A k \in 1..Len(trace) :
             Invokes(k, "timer") =>
                LET c == LastCall(k)
                IN /\ c # 0
                   /\ trace[k].at = trace[c].at + debounceOptions.waitInMs
                   /\ trace[k].arg = trace[c].arg
                   /\ \A j \in (c + 1)..(k - 1) : trace[j].op # "func"
        /\ \A c \in 1..Len(trace) :
             LET n == NextUse(c)
                 until == IF n = 0 THEN now ELSE trace[n].at
                 last == IF n = 0 THEN Len(trace) ELSE n - 1
             IN (trace[c].op = "call" /\ until > trace[c].at + debounceOptions.waitInMs) =>
                    \E k \in (c + 1)..last : Invokes(k, "timer")

\* C21 witness: two calls less than waitInMs apart, and the timer's
\* invocation of func with the argument of the second.
C21_Witness ==
    /\ pc = "debounce" /\ ~debounceOptions.immediate
    /\ Len(trace) = 3
    /\ trace[1].op = "call" /\ trace[2].op = "call"
    /\ trace[2].at > trace[1].at
    /\ trace[2].at < trace[1].at + debounceOptions.waitInMs
    /\ Invokes(3, "timer") /\ trace[3].arg = 2

C23_ClearCancels ==
    pc = "debounce" =>
        /\ (trace # <<>> /\ trace[Len(trace)].op = "clear") => timeouts = {}
        /\ \A k \in 1..Len(trace) :
             Invokes(k, "timer") =>
                LET c == LastCall(k)
                IN /\ \A j \in (c + 1)..(k - 1) : trace[j].op # "clear"
                   /\ (\E j \in 1..(c - 1) : trace[j].op = "clear") =>
                         trace[k].at = trace[c].at + debounceOptions.waitInMs

\* C23 witness: a call, clear() while its timer is pending, a later call,
\* and the timer's invocation of func for that call.
C23_Witness ==
    /\ pc = "debounce"
    /\ Len(trace) = 4
    /\ trace[1].op = "call"
    /\ trace[2].op = "clear" /\ trace[2].pending
    /\ trace[3].op = "call" /\ trace[3].at > trace[1].at
    /\ Invokes(4, "timer") /\ trace[4].arg = 2

C25_TimeoutResolves ==
    (pc = "timeout" /\ outcome # "pending") =>
        IF original.state # "pending" /\ original.at < timeoutOptions.timeoutMs
        THEN outcome = (IF original.state = "fulfilled" THEN "value" ELSE "rejected")
        ELSE (original.state = "pending" \/ original.at > timeoutOptions.timeoutMs)
                => outcome = "fallback"

\* C30: onTimeoutEffect is invoked at most once, and only by the timer when
\* timeoutMs elapsed before the promise settled; once it has been invoked
\* the returned promise resolves with the fallback only; and the timer is
\* not set once the returned promise has settled.
C30_EffectMeansFallback ==
    pc = "timeout" =>
        /\ effects <= 1
        /\ effects = 1 =>
             /\ timeoutTimer = "fired"
             /\ original.state = "pending" \/ original.at >= timeoutOptions.timeoutMs
             /\ outcome \in {"pending", "fallback"}
        /\ outcome # "pending" => timeoutTimer # "set"

\* C27: omit(obj, keys, true) on a plain object returns a new object that
\* has none of the listed keys and no key of obj whose value is undefined,
\* and leaves obj as it was
C27_OmitDropsListedAndUndefined ==
    (pc = "omit" /\ fn.omitUndefined /\ isPlainObject(pre, args[1])) =>
        /\ IsRef(ret) /\ ret.n > Len(pre)
        /\ \A i \in 1..Len(fn.keys) : OwnIndex(heap[ret.n], fn.keys[i]) = 0
        /\ \A i \in 1..Len(pre[args[1].n].props) :
             pre[args[1].n].props[i].val = Undefined =>
                 OwnIndex(heap[ret.n], pre[args[1].n].props[i].key) = 0
        /\ Deep(heap, args[1]) = Deep(pre, args[1])

\* the parts of C27 the call does meet: the result is a new object, obj is
\* left as it was, and a listed key whose value is not undefined is dropped
OmitDropsListedDefined ==
    (pc = "omit" /\ isPlainObject(pre, args[1])) =>
        /\ IsRef(ret) /\ ret.n > Len(pre)
        /\ \A i \in 1..Len(fn.keys) :
             Get(pre, args[1], fn.keys[i]) # Undefined => OwnIndex(heap[ret.n], fn.keys[i]) = 0
        /\ Deep(heap, args[1]) = Deep(pre, args[1])

\* the keys the j-th element of newArray is compared on, and the keys it is
\* matched on
ComparedKeys(j) ==
    IF keysToCompare.given THEN keysToCompare.keys ELSE ObjectKeys(newArray[j])

MatchKeys(j) == IF uniqueKeys.given THEN uniqueKeys.keys ELSE ComparedKeys(j)

Agree(a, b, keys) == \A x \in 1..Len(keys) : a[keys[x]] = b[keys[x]]

\* the place in previousArray of the match of the j-th element of newArray:
\* the first element that agrees with it on the keys it is matched on; 0
\* when there is none
Match(j) ==
    LET agreeing == {i \in 1..Len(previousArray) :
                        Agree(previousArray[i], newArray[j], MatchKeys(j))}
    IN IF agreeing = {} THEN 0 ELSE CHOOSE i \in agreeing : \A x \in agreeing : i <= x

\* the places of previousArray that are the match of no element of newArray
Unmatched == {i \in 1..Len(previousArray) : \A j \in 1..Len(newArray) : Match(j) # i}

\* the record of the j-th element of newArray
RecordOf(j) ==
    IF Match(j) = 0 THEN Diff(NullItem, newArray[j], "added", NullIndex, j - 1)
    ELSE Diff(previousArray[Match(j)], newArray[j],
              IF ~Agree(newArray[j], previousArray[Match(j)], ComparedKeys(j)) THEN "updated"
              ELSE IF Match(j) # j THEN "moved"
              ELSE "equal",
              Match(j) - 1, j - 1)

\* C26: diffObjectsInArrays returns one record per element of newArray, in
\* newArray's order (added when it has no match in previousArray, else
\* updated when it differs from its match on a compared key, else moved when
\* the two indices differ, else equal, with the two items and their
\* indices), followed by one deleted record per element of previousArray
\* that is the match of no element, in previousArray's order
C26_DiffRecords ==
    pc = "diffObjectsInArrays" =>
        /\ Len(diffs) = Len(newArray) + Cardinality(Unmatched)
        /\ \A j \in 1..Len(newArray) : diffs[j] = RecordOf(j)
        /\ \A i \in Unmatched :
             diffs[Len(newArray) + Cardinality({x \in Unmatched : x <= i})]
                 = Diff(previousArray[i], NullItem, "deleted", i - 1, NullIndex)

\* as in the documented example, an element found by its id at another
\* index with another name, and an element that is deleted
C26_Witness ==
    /\ pc = "diffObjectsInArrays"
    /\ keysToCompare = Given(<<"name">>) /\ uniqueKeys = Given(<<"id">>)
    /\ [j \in 1..Len(diffs) |-> diffs[j].status] = <<"updated", "deleted">>
    /\ diffs[1].previousIndex = 1 /\ diffs[1].newIndex = 0
    /\ diffs[2].previousIndex = 0
====
